---- MODULE Spec2Model ----
(***************************************************************************)
(* Task dispatch and worker load balancing of the GPU cloud backend:       *)
(* TaskQueue (services/taskQueue.ts), WorkerManager                        *)
(* (services/workerManager.ts) and the worker and task maps of DataStore   *)
(* (services/store.ts).                                                    *)
(*                                                                         *)
(* Execution model.  The backend runs on one JavaScript event loop.  A     *)
(* step of this model is one run-to-completion slice of it:                *)
(*   - a public call (enqueue, waitForCompletion, resolveTask, rejectTask, *)
(*     addWorker, removeWorker) runs synchronously up to the first await;  *)
(*   - processQueue suspends at `await assignTaskToWorker(..)` and its      *)
(*     continuation is a microtask (PassResume);                           *)
(*   - setTimeout / setInterval callbacks (completion of a simulated task, *)
(*     waiter timeout, heartbeat tick) are macrotasks: they run only when  *)
(*     no microtask is queued, that is when no pass is suspended.          *)
(* Public calls may come from other promise continuations, so they can     *)
(* fall between two slices of a suspended pass.                            *)
(***************************************************************************)
EXTENDS Integers, Sequences, FiniteSets, TLC

\* Bounds of the model.
MaxTasks == 2        \* tasks ever enqueued
MaxWorkers == 2      \* workers ever registered (ids are never reused)
MaxCalls == 2        \* waitForCompletion calls ever made
MaxPriority == 1     \* priorities 0..MaxPriority
MaxKeys == 2         \* API keys ever created
MaxTicks == 2        \* heartbeat ticks with drift and a moving clock

\* Worker constants: the memory of one GPU model of the catalog and the upper
\* clamp of the utilization
RTX_4090_MEMORY == 24
MAX_UTILIZATION == 100

\* Task queue constants
TASK_TIMEOUT_MS == 30000
SIMULATED_LATENCY_MIN_MS == 100
SIMULATED_LATENCY_MAX_MS == 2000

\* Inputs of the public calls.
Priorities == 0..MaxPriority
\* maxCapacity of a registered worker.  createWorker gives 6, 7, 10 or 15
\* (baseThroughput / 10 of the GPU catalogue); the registry takes any worker
\* record.  Small capacities let MaxTasks tasks fill a worker.
Capacities == {1, 2}

VARIABLES
    workers,        \* store.workers, in Map insertion order: Seq of WorkerNode
    nextWorker,     \* number of worker ids issued so far (uuidv4 never repeats)
    tasks,          \* store.tasks, in Map insertion order: tasks[i] has id i;
                    \* besides the fields of InferenceTask a record keeps
                    \* `trail`, the statuses written to it so far (history)
    processing,     \* TaskQueue.processing
    pass,           \* the suspended frame of processQueue
    simTimers,      \* pending setTimeout callbacks of simulateTaskProcessing:
                    \* [task, worker] of the closure and, for the order of the
                    \* timers, the number of waitForCompletion calls made before
    taskCallbacks,  \* TaskQueue.taskCallbacks: task id -> the call whose {resolve, reject} it holds
    calls,          \* the promises returned by waitForCompletion, in call order
    apiKeys,        \* store.apiKeys, in Map insertion order
    nextKey,        \* number of keys generateApiKey has produced
    reply           \* what the last call of the API key service returned

authVars == <<apiKeys, nextKey, reply>>

vars == <<workers, nextWorker, tasks, processing, pass, simTimers,
          taskCallbacks, calls,
         apiKeys, nextKey, reply>>

TaskIds == 1..MaxTasks
NoWorker == 0        \* InferenceTask.assignedWorker undefined
UnknownTask == 0     \* a task id that is not in the store
Undefined == "undefined"   \* an optional field that was never written

-----------------------------------------------------------------------------
(* DataStore: workers *)

\* store.getWorker(id) !== undefined
HasWorker(ws, id) == \E i \in 1..Len(ws) : ws[i].id = id

\* store.getWorker(id), for an id that is present
GetWorker(ws, id) == ws[CHOOSE i \in 1..Len(ws) : ws[i].id = id]

\* store.getOnlineWorkers()
GetOnlineWorkers(ws) == SelectSeq(ws, LAMBDA w : w.status = "online")

\* an updateWorker that drops the write
UpdateWorkerLoadLost(ws, id, load) == ws

\* store.updateWorker(id, {currentLoad: load}); a missing id is left alone
UpdateWorkerLoad(ws, id, load) ==
    [i \in 1..Len(ws) |->
        IF ws[i].id = id THEN [ws[i] EXCEPT !.currentLoad = load] ELSE ws[i]]

\* store.removeWorker(id): Map.delete
RemoveWorkerFrom(ws, id) == SelectSeq(ws, LAMBDA w : w.id # id)

(* DataStore: tasks *)

\* the update of assignTaskToWorker without the assignedWorker field
UpdateTaskAssignedNoWorker(ts, t, wid) ==
    [ts EXCEPT ![t] = [@ EXCEPT !.status = "assigned",
                                !.trail = Append(@, "assigned")]]

\* the update of assignTaskToWorker writing the status of the next update
UpdateTaskAssignedAsProcessing(ts, t, wid) ==
    [ts EXCEPT ![t] = [@ EXCEPT !.status = "processing", !.assignedWorker = wid,
                                !.trail = Append(@, "processing")]]

\* store.updateTask(id, {status: 'assigned', assignedWorker})
UpdateTaskAssigned(ts, t, wid) ==
    [ts EXCEPT ![t] = [@ EXCEPT !.status = "assigned", !.assignedWorker = wid,
                                !.trail = Append(@, "assigned")]]

\* the status updates without the one of simulateTaskProcessing's first
\* statement: the task stays assigned until its timer fires
UpdateTaskStatusLate(ts, t, st) ==
    IF st = "processing" THEN ts
    ELSE [ts EXCEPT ![t] = [@ EXCEPT !.status = st, !.trail = Append(@, st)]]

\* store.updateTask(id, {status, startedAt | completedAt}): the other fields
\* of the task, result and error among them, are kept as they are
UpdateTaskStatus(ts, t, st) ==
    [ts EXCEPT ![t] = [@ EXCEPT !.status = st, !.trail = Append(@, st)]]

\* b.priority - a.priority < 0: a sorts before b
PriorityBefore(ts, a, b) == ts[a].priority > ts[b].priority

RemoveAt(s, i) == SubSeq(s, 1, i - 1) \o SubSeq(s, i + 1, Len(s))

\* Array.prototype.sort is stable: of the elements that no other element
\* precedes, the one that comes first in the array comes first in the result.
RECURSIVE SortByPriority(_, _)
SortByPriority(ts, ids) ==
    IF ids = <<>> THEN <<>>
    ELSE LET i == CHOOSE i \in 1..Len(ids) :
                    /\ \A j \in 1..Len(ids) : ~PriorityBefore(ts, ids[j], ids[i])
                    /\ \A j \in 1..(i - 1) : PriorityBefore(ts, ids[i], ids[j])
         IN  <<ids[i]>> \o SortByPriority(ts, RemoveAt(ids, i))

\* ids of ts in Map order whose status is pending
PendingIds(ts) ==
    SelectSeq([i \in 1..Len(ts) |-> i], LAMBDA t : ts[t].status = "pending")

\* getPendingTasks without its sort: Map order
GetPendingTasksUnsorted(ts) == PendingIds(ts)

\* getPendingTasks without its status filter: every task, sorted
GetPendingTasksAnyStatus(ts) == SortByPriority(ts, [i \in 1..Len(ts) |-> i])

\* store.getPendingTasks()
GetPendingTasks(ts) == SortByPriority(ts, PendingIds(ts))

-----------------------------------------------------------------------------
(* TaskQueue: worker selection *)

\* getAvailableWorkers without its capacity filter
GetAvailableWorkersAnyLoad(ws) == GetOnlineWorkers(ws)

\* getAvailableWorkers(): online and currentLoad < maxCapacity
GetAvailableWorkers(ws) ==
    SelectSeq(GetOnlineWorkers(ws), LAMBDA w : w.currentLoad < w.maxCapacity)

\* ratioA - ratioB < 0 with ratio = currentLoad / maxCapacity; the capacities
\* of the workers compared are positive (currentLoad < maxCapacity)
RatioBefore(a, b) == a.currentLoad * b.maxCapacity < b.currentLoad * a.maxCapacity

\* workers.sort(by load ratio ascending): stable, and in place, so the pool of
\* the pass keeps the sorted order
RECURSIVE SortByRatio(_)
SortByRatio(pool) ==
    IF pool = <<>> THEN <<>>
    ELSE LET i == CHOOSE i \in 1..Len(pool) :
                    /\ \A j \in 1..Len(pool) : ~RatioBefore(pool[j], pool[i])
                    /\ \A j \in 1..(i - 1) : RatioBefore(pool[i], pool[j])
         IN  <<pool[i]>> \o SortByRatio(RemoveAt(pool, i))

\* selectBestWorker without its sort: the first worker of the pool
SelectFirstWorker(pool) == pool[1]

\* The worker of the largest capacity in the pool
SelectLargestWorker(pool) ==
    pool[CHOOSE i \in 1..Len(pool) :
             \A j \in 1..Len(pool) : pool[j].maxCapacity <= pool[i].maxCapacity]

\* selectBestWorker(workers, task) is sorted[0] of the sorted pool; called
\* with a non-empty pool only
SelectBestWorker(pool) == SortByRatio(pool)[1]

\* a splice that empties the pool
SplicePoolAll(pool, id) == <<>>

\* a splice that removes nothing
SplicePoolNone(pool, id) == pool

\* availableWorkers.findIndex(w => w.id === worker.id), then splice(index, 1)
SplicePool(pool, id) ==
    IF \E i \in 1..Len(pool) : pool[i].id = id
    THEN RemoveAt(pool, CHOOSE i \in 1..Len(pool) :
                            /\ pool[i].id = id
                            /\ \A j \in 1..(i - 1) : pool[j].id # id)
    ELSE pool

-----------------------------------------------------------------------------
(* TaskQueue: the waiter map *)

\* The promise of call c: the first continuation invoked settles it, a later
\* invocation is counted and changes nothing else.
Invoke(cs, c, outcome) ==
    [cs EXCEPT ![c] = [@ EXCEPT !.invoked = @ + 1,
                                !.state = IF @ = "waiting" THEN outcome ELSE @]]

\* resolveTask(taskId, result): calls after it
ResolvedCalls(cs, cb, t) ==
    IF t \in DOMAIN cb THEN Invoke(cs, cb[t], "resolved") ELSE cs

\* rejectTask(taskId, error): calls after it
RejectedCalls(cs, cb, t) ==
    IF t \in DOMAIN cb THEN Invoke(cs, cb[t], "failed") ELSE cs

\* this.taskCallbacks.delete(taskId)
DeleteCallback(cb, t) == [k \in DOMAIN cb \ {t} |-> cb[k]]

\* this.taskCallbacks.set(taskId, {resolve, reject}) by call c
SetCallback(cb, t, c) == [k \in DOMAIN cb \cup {t} |-> IF k = t THEN c ELSE cb[k]]

-----------------------------------------------------------------------------
(* Initial state: the module-level singletons, before initializeWorkers *)

\* reply: the call, its argument, and what it returned: a boolean as `ok`, a
\* record or null as the set `records` of at most one record
NoReply == [op |-> "none", arg |-> 0, ok |-> FALSE, records |-> {}]

IdlePass == [pc |-> "idle", pendingTasks |-> <<>>, i |-> 0,
             availableWorkers |-> <<>>, worker |-> NoWorker]

Init ==
    /\ workers = <<>>
    /\ nextWorker = 0
    /\ tasks = <<>>
    /\ processing = FALSE
    /\ pass = IdlePass
    /\ simTimers = {}
    /\ taskCallbacks = <<>>
    /\ calls = <<>>
    /\ apiKeys = <<>>
    /\ nextKey = 0
    /\ reply = NoReply

-----------------------------------------------------------------------------
(* TaskQueue: the scheduling pass *)

\* The body of the for loop of processQueue from the top of the iteration on
\* pendingTasks[i], run up to the next await or to the end of the pass.
\*   ts    the task map when the iteration starts
\*   pts   pendingTasks (the array read when the pass started)
\*   pool  availableWorkers (the WorkerNode objects read when the pass started)
\* assignTaskToWorker and simulateTaskProcessing run synchronously inside the
\* iteration: status assigned, load written as the pool object's currentLoad
\* plus one, status processing, completion timer armed.
ProcessQueueLoop(ts, pts, i, pool) ==
    IF i > Len(pts) \/ pool = <<>>
    THEN \* loop ends or breaks; finally: processing = false
         /\ tasks' = ts
         /\ processing' = FALSE
         /\ pass' = IdlePass
         /\ UNCHANGED <<workers, simTimers>>
    ELSE LET sorted == SortByRatio(pool)
             worker == SelectBestWorker(pool)
             task   == pts[i]
         IN  /\ tasks' = UpdateTaskStatus(
                             UpdateTaskAssigned(ts, task, worker.id),
                             task, "processing")
             /\ workers' = UpdateWorkerLoad(workers, worker.id,
                                            worker.currentLoad + 1)
             /\ simTimers' = simTimers \cup {[task |-> task, worker |-> worker.id,
                                              calls |-> Len(calls)]}
             /\ processing' = TRUE
             /\ pass' = [pc |-> "await", pendingTasks |-> pts, i |-> i,
                         availableWorkers |-> sorted, worker |-> worker.id]

\* enqueue that stores the task and starts no pass
EnqueueAddOnly(priority) ==
    /\ tasks' = Append(tasks, [priority |-> priority, status |-> "pending",
                               assignedWorker |-> NoWorker,
                               result |-> Undefined, error |-> Undefined,
                               trail |-> <<"pending">>])
    /\ UNCHANGED authVars
    /\ UNCHANGED <<workers, nextWorker, processing, pass, simTimers,
                   taskCallbacks, calls>>

\* enqueue whose processQueue does not test the processing flag
EnqueueIgnoringFlag(priority) ==
    /\ LET ts == Append(tasks, [priority |-> priority, status |-> "pending",
                                assignedWorker |-> NoWorker,
                                result |-> Undefined, error |-> Undefined,
                                trail |-> <<"pending">>])
       IN  ProcessQueueLoop(ts, GetPendingTasks(ts), 1,
                            GetAvailableWorkers(workers))
    /\ UNCHANGED authVars
    /\ UNCHANGED <<nextWorker, taskCallbacks, calls>>

\* enqueue(type, payload, apiKeyId, priority): store.addTask, then
\* processQueue(), which returns at once when a pass is active and otherwise
\* reads the pending tasks and the available workers and runs its first
\* iteration.
Enqueue(priority) ==
    /\ LET ts == Append(tasks, [priority |-> priority, status |-> "pending",
                                assignedWorker |-> NoWorker,
                                result |-> Undefined, error |-> Undefined,
                                trail |-> <<"pending">>])
       IN  IF processing
           THEN /\ tasks' = ts
                /\ UNCHANGED <<workers, processing, pass, simTimers>>
           ELSE ProcessQueueLoop(ts, GetPendingTasks(ts), 1,
                                 GetAvailableWorkers(workers))
    /\ UNCHANGED authVars
    /\ UNCHANGED <<nextWorker, taskCallbacks, calls>>

\* The continuation of processQueue after `await assignTaskToWorker(..)`: the
\* worker just used is spliced out of the pool, then the next iteration runs.
PassResume ==
    /\ pass.pc = "await"
    /\ ProcessQueueLoop(tasks, pass.pendingTasks, pass.i + 1,
                        SplicePool(pass.availableWorkers, pass.worker))
    /\ UNCHANGED authVars
    /\ UNCHANGED <<nextWorker, taskCallbacks, calls>>

\* tasks.filter(t => t.status === st).length
CountTasks(ts, st) == Cardinality({t \in 1..Len(ts) : ts[t].status = st})

\* getStats(): counts of store.getAllTasks() by four of the five statuses
GetStats(ts) ==
    [pending    |-> CountTasks(ts, "pending"),
     processing |-> CountTasks(ts, "processing"),
     completed  |-> CountTasks(ts, "completed"),
     failed     |-> CountTasks(ts, "failed")]

\* No microtask is queued: timer callbacks may run.
TimersMayRun == pass.pc = "idle"

\* The setTimeout callback of simulateTaskProcessing(task, worker).
CompleteTask(tm) ==
    /\ TimersMayRun
    /\ tm \in simTimers
    /\ simTimers' = simTimers \ {tm}
    /\ tasks' = UpdateTaskStatus(tasks, tm.task, "completed")
    /\ workers' = IF HasWorker(workers, tm.worker)
                  THEN UpdateWorkerLoad(workers, tm.worker,
                           IF GetWorker(workers, tm.worker).currentLoad - 1 > 0
                           THEN GetWorker(workers, tm.worker).currentLoad - 1
                           ELSE 0)
                  ELSE workers
    /\ calls' = ResolvedCalls(calls, taskCallbacks, tm.task)
    /\ taskCallbacks' = DeleteCallback(taskCallbacks, tm.task)
    /\ UNCHANGED authVars
    /\ UNCHANGED <<nextWorker, processing, pass>>

-----------------------------------------------------------------------------
(* TaskQueue: waiters *)

\* the early returns of waitForCompletion without the one for a completed task
WaitOutcomeNoCompletedCheck(ts, t) ==
    IF t = UnknownTask THEN "notfound"
    ELSE IF ts[t].status = "failed" THEN "failed"
    ELSE "waiting"

\* The early returns of waitForCompletion(taskId): how the promise is settled
\* before anything is registered, "waiting" when none is taken.
WaitOutcome(ts, t) ==
    IF t = UnknownTask THEN "notfound"
    ELSE IF ts[t].status = "completed" THEN "resolved"
    ELSE IF ts[t].status = "failed" THEN "failed"
    ELSE "waiting"

\* waitForCompletion(taskId): the executor of the returned promise.
WaitForCompletion(t) ==
    /\ t \in {UnknownTask} \cup (1..Len(tasks))
    /\ LET c == Len(calls) + 1
           outcome == WaitOutcome(tasks, t)
       IN  IF outcome # "waiting"
           THEN /\ calls' = Append(calls, [task |-> t, state |-> outcome,
                                           invoked |-> 1, timer |-> "none"])
                /\ UNCHANGED taskCallbacks
           ELSE /\ calls' = Append(calls, [task |-> t, state |-> "waiting",
                                           invoked |-> 0, timer |-> "armed"])
                /\ taskCallbacks' = SetCallback(taskCallbacks, t, c)
    /\ UNCHANGED authVars
    /\ UNCHANGED <<workers, nextWorker, tasks, processing, pass, simTimers>>

\* Timers fire in the order of their deadlines.  The waiter timers all run
\* TASK_TIMEOUT_MS, so they fire in the order they were armed; a simulated
\* latency is between SIMULATED_LATENCY_MIN_MS and SIMULATED_LATENCY_MAX_MS, so
\* a completion timer armed before a waiter timer fires before it; a
\* completion timer armed after a waiter timer may fire before or after it.
WaiterTimerIsNext(c) ==
    /\ \A d \in 1..(c - 1) : calls[d].timer # "armed"
    /\ SIMULATED_LATENCY_MAX_MS < TASK_TIMEOUT_MS
          => \A tm \in simTimers : tm.calls >= c

\* The setTimeout callback armed by call c of waitForCompletion.
WaiterTimeout(c) ==
    /\ TimersMayRun
    /\ c \in 1..Len(calls)
    /\ calls[c].timer = "armed"
    /\ WaiterTimerIsNext(c)
    /\ LET t == calls[c].task
           fired == [calls EXCEPT ![c] = [@ EXCEPT !.timer = "fired"]]
       IN  IF t \in DOMAIN taskCallbacks
           THEN /\ taskCallbacks' = DeleteCallback(taskCallbacks, t)
                /\ calls' = Invoke(fired, c, "timeout")
           ELSE /\ calls' = fired
                /\ UNCHANGED taskCallbacks
    /\ UNCHANGED authVars
    /\ UNCHANGED <<workers, nextWorker, tasks, processing, pass, simTimers>>

\* resolveTask(taskId, {success: true}) as InferenceService calls it once the
\* upstream request of the task has answered.
ResolveTask(t) ==
    /\ t \in {UnknownTask} \cup (1..Len(tasks))
    /\ calls' = ResolvedCalls(calls, taskCallbacks, t)
    /\ taskCallbacks' = DeleteCallback(taskCallbacks, t)
    /\ UNCHANGED authVars
    /\ UNCHANGED <<workers, nextWorker, tasks, processing, pass, simTimers>>

\* rejectTask(taskId, message) as InferenceService calls it in its catch block
\* when the upstream request of the task has failed.
RejectTask(t) ==
    /\ t \in {UnknownTask} \cup (1..Len(tasks))
    /\ calls' = RejectedCalls(calls, taskCallbacks, t)
    /\ taskCallbacks' = DeleteCallback(taskCallbacks, t)
    /\ UNCHANGED authVars
    /\ UNCHANGED <<workers, nextWorker, tasks, processing, pass, simTimers>>

-----------------------------------------------------------------------------
(* WorkerManager *)

\* gpuInfo of a worker as createWorker can draw it: the memory of the
\* RTX 4090 of GPU_MODELS, and 0 for both Math.floor(Math.random() * ..)
IdleGpu == [memoryTotal |-> RTX_4090_MEMORY, memoryUsed |-> 0, utilization |-> 0]

\* The latest time stamp stored in the registry; new Date() is not before it
RECURSIVE LatestHeartbeat(_)
LatestHeartbeat(ws) ==
    IF ws = <<>> THEN 0
    ELSE LET rest == LatestHeartbeat(Tail(ws))
         IN  IF ws[1].lastHeartbeat > rest THEN ws[1].lastHeartbeat ELSE rest

\* A WorkerNode record: gpuInfo is kept flat as memoryTotal, memoryUsed and
\* utilization; hostname, gpuInfo.name and supportedModels are not carried
WorkerNode(id, status, cap, gpu, time) ==
    [id |-> id, status |-> status, currentLoad |-> 0, maxCapacity |-> cap,
     memoryTotal |-> gpu.memoryTotal, memoryUsed |-> gpu.memoryUsed,
     utilization |-> gpu.utilization, lastHeartbeat |-> time]

\* addWorker(hostname) -> createWorker: a new id, status online, zero load.
AddWorker(cap) ==
    /\ nextWorker' = nextWorker + 1
    /\ workers' = Append(workers, WorkerNode(nextWorker + 1, "online", cap,
                                             IdleGpu, LatestHeartbeat(workers)))
    /\ UNCHANGED authVars
    /\ UNCHANGED <<tasks, processing, pass, simTimers, taskCallbacks, calls>>

\* store.addWorker(worker) with a record built by the caller, as the test
\* fixtures do: any status of the WorkerNode type
WorkerStatuses == {"online", "offline", "busy"}

StoreAddWorker(status, cap) ==
    /\ nextWorker' = nextWorker + 1
    /\ workers' = Append(workers, WorkerNode(nextWorker + 1, status, cap,
                                             IdleGpu, LatestHeartbeat(workers)))
    /\ UNCHANGED authVars
    /\ UNCHANGED <<tasks, processing, pass, simTimers, taskCallbacks, calls>>

\* workers.filter(w => w.status === status).length
CountStatus(ws, status) == Len(SelectSeq(ws, LAMBDA w : w.status = status))

\* getWorkerStats with offline taken as whatever is not online
GetWorkerStatsOfflineAsRest(ws) ==
    [total   |-> Len(ws),
     online  |-> CountStatus(ws, "online"),
     offline |-> Len(ws) - CountStatus(ws, "online"),
     busy    |-> CountStatus(ws, "busy")]

\* getWorkerStats(): the four counts by status; totalGpuMemory and
\* avgUtilization, sums over gpuInfo, are left out of the record
GetWorkerStats(ws) ==
    [total   |-> Len(ws),
     online  |-> CountStatus(ws, "online"),
     offline |-> CountStatus(ws, "offline"),
     busy    |-> CountStatus(ws, "busy")]

\* removeWorker(id) -> store.removeWorker(id); nothing else is touched.
RemoveWorker(id) ==
    /\ id \in 1..nextWorker
    /\ workers' = RemoveWorkerFrom(workers, id)
    /\ UNCHANGED authVars
    /\ UNCHANGED <<nextWorker, tasks, processing, pass, simTimers,
                   taskCallbacks, calls>>

\* newStatus of the heartbeat callback when the 2% draw hits
ToggleStatus(status) == IF status = "online" THEN "offline" ELSE "online"

\* The random draws of the heartbeat callback for one worker.  The changes
\* are counted in halves of a unit so that Math.round has something to round:
\* (Math.random() - 0.5) * 10 lies in [-5, 5), here -10 .. 9 halves, and
\* (Math.random() - 0.5) * 2 in [-1, 1), here -2 .. 1 halves.
UtilizationChanges == {-10, 0, 9}
MemoryChanges == {-2, 1}

Draws == [toggle : BOOLEAN, utilizationChange : UtilizationChanges,
          memoryChange : MemoryChanges]

\* The draws with no drift, for the specifications that look at scheduling
QuietDraws == [toggle : BOOLEAN, utilizationChange : {0}, memoryChange : {0}]

\* Math.max(lo, Math.min(hi, x))
Clamp(x, lo, hi) == IF x < lo THEN lo ELSE IF x > hi THEN hi ELSE x

\* Math.round of h halves, h >= 0: a half is rounded up
RoundHalves(h) == (h + 1) \div 2

\* the new utilization without the clamp
NewUtilizationUnclamped(w, change) == RoundHalves(2 * w.utilization + change)

\* Math.round(Math.max(0, Math.min(100, utilization + utilizationChange)))
NewUtilization(w, change) ==
    RoundHalves(Clamp(2 * w.utilization + change, 0, 2 * MAX_UTILIZATION))

\* Math.round(Math.max(0, Math.min(memoryTotal, memoryUsed + memoryChange)))
NewMemoryUsed(w, change) ==
    RoundHalves(Clamp(2 * w.memoryUsed + change, 0, 2 * w.memoryTotal))

\* the heartbeat update with a store that starts the record afresh instead
\* of merging the update into it: the load is that of a new record
HeartbeatUpdateReplacing(w, draw, time) ==
    [w EXCEPT !.utilization = NewUtilization(w, draw.utilizationChange),
              !.memoryUsed = NewMemoryUsed(w, draw.memoryChange),
              !.status = IF draw.toggle THEN ToggleStatus(@) ELSE @,
              !.lastHeartbeat = time,
              !.currentLoad = 0]

\* store.updateWorker(worker.id, {gpuInfo, status, lastHeartbeat}): the
\* update is merged into the stored worker, so every other field is kept
HeartbeatUpdate(w, draw, time) ==
    [w EXCEPT !.utilization = NewUtilization(w, draw.utilizationChange),
              !.memoryUsed = NewMemoryUsed(w, draw.memoryChange),
              !.status = IF draw.toggle THEN ToggleStatus(@) ELSE @,
              !.lastHeartbeat = time]

\* One tick of the heartbeat interval: every worker is updated in turn, the
\* worker of id k with the draws draws[k]; time is new Date().
HeartbeatTick(draws, time) ==
    /\ TimersMayRun
    /\ workers # <<>>
    /\ workers' = [i \in 1..Len(workers) |->
                     HeartbeatUpdate(workers[i], draws[workers[i].id], time)]
    /\ UNCHANGED authVars
    /\ UNCHANGED <<nextWorker, tasks, processing, pass, simTimers,
                   taskCallbacks, calls>>

-----------------------------------------------------------------------------
(* AuthService: API keys *)

\* Plain keys are 1, 2, .. in the order generateApiKey produced them; 0 is a
\* string that was never generated ('invalid-key')
KeyValues == 0..MaxKeys

\* hashApiKey(plainKey).substring(0, 16): the id of the record of a key, a
\* value that is no plain key
KeyId(key) == MaxKeys + 1 + key

KeyIds == {KeyId(key) : key \in KeyValues}

\* JavaScript null, where a record is expected
Null == {}

HasApiKey(keys, id) == \E i \in 1..Len(keys) : keys[i].id = id

\* store.getApiKey(id), for an id that is present
GetApiKey(keys, id) == keys[CHOOSE i \in 1..Len(keys) : keys[i].id = id]

\* store.addApiKey(apiKey): Map.set keeps the position of a present id
AddApiKey(keys, apiKey) ==
    IF HasApiKey(keys, apiKey.id)
    THEN [i \in 1..Len(keys) |-> IF keys[i].id = apiKey.id THEN apiKey ELSE keys[i]]
    ELSE Append(keys, apiKey)

\* store.getApiKeyByKey(key): find() gives the first record with this key
HasApiKeyByKey(keys, key) == \E i \in 1..Len(keys) : keys[i].key = key

GetApiKeyByKey(keys, key) ==
    keys[CHOOSE i \in 1..Len(keys) :
             /\ keys[i].key = key
             /\ \A j \in 1..(i - 1) : keys[j].key # key]

\* validateApiKey without the isActive test
ValidateApiKeyAnyState(keys, key) ==
    IF ~HasApiKeyByKey(keys, key) THEN Null ELSE {GetApiKeyByKey(keys, key)}

\* validateApiKey(key): null when no record has the key or the record is not
\* active, else the record
ValidateApiKey(keys, key) ==
    IF ~HasApiKeyByKey(keys, key) \/ ~GetApiKeyByKey(keys, key).isActive
    THEN Null
    ELSE {GetApiKeyByKey(keys, key)}

\* createApiKey(userId, name): a fresh key, stored active
CreateApiKey ==
    /\ nextKey' = nextKey + 1
    /\ LET apiKey == [id |-> KeyId(nextKey + 1), key |-> nextKey + 1,
                      isActive |-> TRUE, lastUsedAt |-> Undefined]
       IN  /\ apiKeys' = AddApiKey(apiKeys, apiKey)
           /\ reply' = [op |-> "createApiKey", arg |-> nextKey + 1,
                        ok |-> TRUE, records |-> {apiKey}]
    /\ UNCHANGED <<workers, nextWorker, tasks, processing, pass, simTimers,
                   taskCallbacks, calls>>

\* authenticateApiKey -> validateApiKey(key): a read
ValidateCall(key) ==
    /\ reply' = [op |-> "validateApiKey", arg |-> key,
                 ok |-> ValidateApiKey(apiKeys, key) # Null,
                 records |-> ValidateApiKey(apiKeys, key)]
    /\ UNCHANGED <<workers, nextWorker, tasks, processing, pass, simTimers,
                   taskCallbacks, calls, apiKeys, nextKey>>

\* store.updateApiKey(id, {isActive: false}) on a present id
DeactivateApiKey(keys, id) ==
    [i \in 1..Len(keys) |->
        IF keys[i].id = id THEN [keys[i] EXCEPT !.isActive = FALSE] ELSE keys[i]]

\* revokeApiKey(id): false when the id is not stored, else the record is
\* replaced by a copy with isActive false and true is returned
RevokeApiKey(id) ==
    /\ IF ~HasApiKey(apiKeys, id)
       THEN /\ reply' = [op |-> "revokeApiKey", arg |-> id, ok |-> FALSE,
                         records |-> {}]
            /\ UNCHANGED apiKeys
       ELSE /\ apiKeys' = DeactivateApiKey(apiKeys, id)
            /\ reply' = [op |-> "revokeApiKey", arg |-> id, ok |-> TRUE,
                         records |-> {}]
    /\ UNCHANGED <<workers, nextWorker, tasks, processing, pass, simTimers,
                   taskCallbacks, calls, nextKey>>

\* deleteApiKey(id) -> store.deleteApiKey(id): Map.delete and its result
DeleteApiKey(id) ==
    /\ apiKeys' = SelectSeq(apiKeys, LAMBDA k : k.id # id)
    /\ reply' = [op |-> "deleteApiKey", arg |-> id,
                 ok |-> HasApiKey(apiKeys, id), records |-> {}]
    /\ UNCHANGED <<workers, nextWorker, tasks, processing, pass, simTimers,
                   taskCallbacks, calls, nextKey>>

\* The usage update of a served completion:
\* store.updateApiKey(apiKeyId, {usageCount, lastUsedAt}) when the key is
\* stored; the other fields of the record are kept.  Of the two fields
\* written the records here carry lastUsedAt, as set or not.
UpdateKeyUsage(id) ==
    /\ HasApiKey(apiKeys, id)
    /\ apiKeys' = [i \in 1..Len(apiKeys) |->
                     IF apiKeys[i].id = id
                     THEN [apiKeys[i] EXCEPT !.lastUsedAt = "Date"]
                     ELSE apiKeys[i]]
    /\ UNCHANGED <<workers, nextWorker, tasks, processing, pass, simTimers,
                   taskCallbacks, calls, nextKey, reply>>

AuthNext ==
    \/ nextKey < MaxKeys /\ CreateApiKey
    \/ \E key \in KeyValues : ValidateCall(key)
    \/ \E id \in KeyIds : RevokeApiKey(id)
    \/ \E id \in KeyIds : DeleteApiKey(id)
    \/ \E id \in KeyIds : UpdateKeyUsage(id)

AuthSpec == Init /\ [][AuthNext]_vars

-----------------------------------------------------------------------------
WorkerIdsOf(ws) == {ws[i].id : i \in 1..Len(ws)}

Next ==
    \/ Len(tasks) < MaxTasks /\ \E p \in Priorities : Enqueue(p)
    \/ PassResume
    \/ \E tm \in simTimers : CompleteTask(tm)
    \/ Len(calls) < MaxCalls /\ \E t \in {UnknownTask} \cup TaskIds : WaitForCompletion(t)
    \/ \E c \in 1..MaxCalls : WaiterTimeout(c)
    \/ \E t \in {UnknownTask} \cup TaskIds : ResolveTask(t)
    \/ \E t \in {UnknownTask} \cup TaskIds : RejectTask(t)
    \/ nextWorker < MaxWorkers /\ \E cap \in Capacities : AddWorker(cap)
    \/ \E id \in 1..MaxWorkers : RemoveWorker(id)
    \/ \E draws \in [WorkerIdsOf(workers) -> QuietDraws] :
           HeartbeatTick(draws, LatestHeartbeat(workers))

Spec == Init /\ [][Next]_vars

\* The event loop runs every queued microtask and fires every armed timer;
\* calls from outside are not obliged to come.
FairSpec ==
    /\ Init /\ [][Next]_vars
    /\ WF_vars(PassResume)
    /\ WF_vars(\E tm \in simTimers : CompleteTask(tm))
    /\ \A c \in 1..MaxCalls : WF_vars(WaiterTimeout(c))

SchedNext ==
    \/ Len(tasks) < MaxTasks /\ \E p \in Priorities : Enqueue(p)
    \/ PassResume
    \/ \E tm \in simTimers : CompleteTask(tm)
    \/ nextWorker < MaxWorkers /\ \E cap \in Capacities : AddWorker(cap)
    \/ \E id \in 1..MaxWorkers : RemoveWorker(id)
    \/ \E draws \in [WorkerIdsOf(workers) -> QuietDraws] :
           HeartbeatTick(draws, LatestHeartbeat(workers))

SchedSpec == Init /\ [][SchedNext]_vars

FairSchedSpec ==
    /\ Init /\ [][SchedNext]_vars
    /\ WF_vars(PassResume)
    /\ WF_vars(\E tm \in simTimers : CompleteTask(tm))

\* The scheduler over a registry whose records are stored with any status
RegistryNext ==
    \/ Len(tasks) < MaxTasks /\ \E p \in Priorities : Enqueue(p)
    \/ PassResume
    \/ \E tm \in simTimers : CompleteTask(tm)
    \/ nextWorker < MaxWorkers /\ \E status \in WorkerStatuses, cap \in Capacities :
           StoreAddWorker(status, cap)
    \/ \E id \in 1..MaxWorkers : RemoveWorker(id)
    \/ \E draws \in [WorkerIdsOf(workers) -> QuietDraws] :
           HeartbeatTick(draws, LatestHeartbeat(workers))

RegistrySpec == Init /\ [][RegistryNext]_vars

-----------------------------------------------------------------------------
(* Scenarios: a registry filled through store.addWorker before the first
   enqueue and left alone afterwards (no registration, removal or heartbeat),
   and enqueue calls with the priorities of a script *)

ScenarioCapacities == {1, 2, 4, 8}

\* The priorities of the enqueue calls of a scenario, in call order
ScenarioTwoTasks == <<0, 0>>
ScenarioFiveTasks == <<1, 5, 1, 3, 1>>
Scripts == {ScenarioTwoTasks, ScenarioFiveTasks}

\* All sequences of distinct elements of S
RECURSIVE Arrangements(_)
Arrangements(S) ==
    {<<>>} \cup UNION {{<<x>> \o rest : rest \in Arrangements(S \ {x})} : x \in S}

\* The registry after store.addWorker of online workers at zero load with the
\* capacities caps, in this order
RegistryOf(caps) ==
    [i \in 1..Len(caps) |-> WorkerNode(i, "online", caps[i], IdleGpu, 0)]

ScenarioInit ==
    /\ \E caps \in Arrangements(ScenarioCapacities) \ {<<>>} :
           /\ workers = RegistryOf(caps)
           /\ nextWorker = Len(caps)
    /\ tasks = <<>>
    /\ processing = FALSE
    /\ pass = IdlePass
    /\ simTimers = {}
    /\ taskCallbacks = <<>>
    /\ calls = <<>>
    /\ apiKeys = <<>>
    /\ nextKey = 0
    /\ reply = NoReply

PrioritiesOf(ts) == [i \in 1..Len(ts) |-> ts[i].priority]

\* The next enqueue call of some script has priority p
ScriptAllows(p) ==
    \E script \in Scripts :
        /\ Len(tasks) < Len(script)
        /\ PrioritiesOf(tasks) = SubSeq(script, 1, Len(tasks))
        /\ script[Len(tasks) + 1] = p

ScriptPriorities == UNION {{script[i] : i \in 1..Len(script)} : script \in Scripts}

\* The calls of a script made at any moment, also while a pass is suspended
ScenarioNext ==
    \/ \E p \in ScriptPriorities : ScriptAllows(p) /\ Enqueue(p)
    \/ PassResume
    \/ \E tm \in simTimers : CompleteTask(tm)

ScenarioSpec == ScenarioInit /\ [][ScenarioNext]_vars

\* The calls of a script made one after the other, `await enqueue(..)`: the
\* continuation of the pass the call started was queued before the caller's
\* and has ended the pass when the next call is made
SequentialNext ==
    \/ \E p \in ScriptPriorities : ScriptAllows(p) /\ ~processing /\ Enqueue(p)
    \/ PassResume
    \/ \E tm \in simTimers : CompleteTask(tm)

SequentialSpec == ScenarioInit /\ [][SequentialNext]_vars

-----------------------------------------------------------------------------
(* The heartbeat with all its draws, over a registry of stored records whose
   gpuInfo is near the clamps, and the scheduler at work meanwhile *)

HeartbeatFixtures ==
    {[status |-> "online", maxCapacity |-> 1,
      gpu |-> [memoryTotal |-> RTX_4090_MEMORY, memoryUsed |-> 0,
               utilization |-> 3]],
     [status |-> "busy", maxCapacity |-> 2,
      gpu |-> [memoryTotal |-> RTX_4090_MEMORY, memoryUsed |-> RTX_4090_MEMORY,
               utilization |-> 98]]}

HeartbeatInit ==
    /\ \E fixtures \in Arrangements(HeartbeatFixtures) \ {<<>>} :
           /\ workers = [i \in 1..Len(fixtures) |->
                            WorkerNode(i, fixtures[i].status,
                                       fixtures[i].maxCapacity,
                                       fixtures[i].gpu, 0)]
           /\ nextWorker = Len(fixtures)
    /\ tasks = <<>>
    /\ processing = FALSE
    /\ pass = IdlePass
    /\ simTimers = {}
    /\ taskCallbacks = <<>>
    /\ calls = <<>>
    /\ apiKeys = <<>>
    /\ nextKey = 0
    /\ reply = NoReply

HeartbeatNext ==
    \/ Len(tasks) < MaxTasks /\ \E p \in Priorities : Enqueue(p)
    \/ PassResume
    \/ \E tm \in simTimers : CompleteTask(tm)
    \/ LatestHeartbeat(workers) < MaxTicks /\
           \E draws \in [WorkerIdsOf(workers) -> Draws] :
               HeartbeatTick(draws, LatestHeartbeat(workers) + 1)

HeartbeatSpec == HeartbeatInit /\ [][HeartbeatNext]_vars

-----------------------------------------------------------------------------
(* Properties *)

Eligible(w) == w.status = "online" /\ w.currentLoad < w.maxCapacity

EligibleWorkers(ws) == {ws[i] : i \in {j \in 1..Len(ws) : Eligible(ws[j])}}

\* Task t leaves pending in this step (a task enqueued in this step counts as
\* pending before it).
AssignedNow(t) ==
    /\ t \in 1..Len(tasks')
    /\ t > Len(tasks) \/ tasks[t].status = "pending"
    /\ tasks'[t].status # "pending"

\* C1: every worker of the registry has 0 <= currentLoad <= maxCapacity, in
\* every state reachable by enqueue, passes, completions, heartbeat ticks,
\* addWorker and removeWorker.
C1_LoadWithinCapacity ==
    \A i \in 1..Len(workers) :
        /\ 0 <= workers[i].currentLoad
        /\ workers[i].currentLoad <= workers[i].maxCapacity

\* A worker filled to its capacity of two by two passes.
C1_Witness ==
    \E i \in 1..Len(workers) :
        workers[i].maxCapacity = 2 /\ workers[i].currentLoad = 2

\* C2: every task reaches completed or failed; a task that stays pending
\* forever never saw an eligible worker while it was pending.
C2_TaskFinishesOrNeverHadWorker ==
    \A t \in TaskIds :
        <>[](t <= Len(tasks) /\ tasks[t].status = "pending")
        => [](t <= Len(tasks) /\ tasks[t].status = "pending"
                => EligibleWorkers(workers) = {})

PoolBefore ==
    IF pass.pc = "idle" THEN EligibleWorkers(workers)
    ELSE {pass.availableWorkers[j] :
              j \in {k \in 1..Len(pass.availableWorkers) :
                         pass.availableWorkers[k].id # pass.worker}}

RankBefore(ts, u, t) ==
    \/ ts[u].priority > ts[t].priority
    \/ ts[u].priority = ts[t].priority /\ u < t

\* u was pending when the pass that acts in this step started
PendingAtPassStart(u) ==
    IF pass.pc = "idle" THEN TRUE
    ELSE \E j \in 1..Len(pass.pendingTasks) : pass.pendingTasks[j] = u

\* C4: when a pass assigns task t, no task that was pending at the start of the
\* pass and is of higher priority, or of equal priority and enqueued earlier,
\* is still pending.
C4_PriorityThenFifo ==
    [][\A t \in 1..Len(tasks') :
         AssignedNow(t) =>
            \A u \in 1..Len(tasks') :
                (u # t /\ tasks'[u].status = "pending" /\ RankBefore(tasks', u, t))
                => ~PendingAtPassStart(u)]_vars

\* A pass has assigned a later, higher-priority task first and then an earlier
\* task of lower priority.
C4_Witness ==
    /\ pass.pc = "await"
    /\ pass.i >= 2
    /\ pass.pendingTasks[1] > pass.pendingTasks[2]
    /\ tasks[pass.pendingTasks[1]].priority > tasks[pass.pendingTasks[2]].priority

\* C5: every waitForCompletion call is settled, whatever other calls, resolves,
\* rejects and timeouts happen on the same task id: no promise stays unsettled
\* forever.
C5_EveryCallSettles ==
    \A c \in 1..MaxCalls :
        [](c <= Len(calls) => <>(c <= Len(calls) /\ calls[c].state # "waiting"))

\* C6: for a waiter, at most one of resolveTask, rejectTask and its timeout
\* invokes one of its continuations.
C6_AtMostOneContinuation ==
    \A c \in 1..Len(calls) : calls[c].invoked <= 1

\* The call of waitForCompletion made in this step
NewCall == calls'[Len(calls')]

\* C7: waitForCompletion on an unknown task id fails with task-not-found, on a
\* completed task it resolves and on a failed task it rejects at once; in
\* these cases the callback map is left as it was and no timer is armed.
C7_NoWaiterForUnknownOrTerminal ==
    [][Len(calls') = Len(calls) + 1 =>
         LET t == NewCall.task
             terminal == IF t = UnknownTask THEN FALSE
                         ELSE tasks[t].status \in {"completed", "failed"}
         IN  /\ t = UnknownTask => NewCall.state = "notfound"
             /\ t # UnknownTask /\ tasks[t].status = "completed"
                  => NewCall.state = "resolved"
             /\ t # UnknownTask /\ tasks[t].status = "failed"
                  => NewCall.state = "failed"
             /\ t = UnknownTask \/ terminal
                  => /\ taskCallbacks' = taskCallbacks
                     /\ NewCall.timer = "none"
                     /\ NewCall.invoked = 1]_vars

\* A call on a completed task was resolved at once, and a call on an unknown
\* id was refused, neither with a timer.
C7_Witness ==
    /\ \E c \in 1..Len(calls) :
          /\ calls[c].task # UnknownTask
          /\ calls[c].state = "resolved"
          /\ calls[c].timer = "none"
    /\ \E c \in 1..Len(calls) :
          /\ calls[c].task = UnknownTask
          /\ calls[c].state = "notfound"
          /\ calls[c].timer = "none"

\* The timer of call c fires in this step.
TimerFires(c) == calls[c].timer = "armed" /\ calls'[c].timer = "fired"

\* C8: when the timeout of a waiter fires and the waiter is not yet settled,
\* the waiter is rejected with a timeout error and its task has no entry left
\* in the callback map, while tasks and workers are unchanged.
C8_TimeoutRejectsOnlyTheWaiter ==
    [][\A c \in 1..Len(calls) :
         TimerFires(c) /\ calls[c].state = "waiting" =>
            /\ calls'[c].state = "timeout"
            /\ calls[c].task \notin DOMAIN taskCallbacks'
            /\ tasks' = tasks
            /\ workers' = workers]_vars

\* C9: a processing task whose worker is gone from the registry is finalized
\* as failed: it never ends completed.
C9_WorkerLostTaskFails ==
    [][\A t \in 1..Len(tasks) :
         (/\ tasks[t].status = "processing"
          /\ ~HasWorker(workers, tasks[t].assignedWorker))
         => tasks'[t].status # "completed"]_vars

\* C10: when the upstream call of a task fails and its waiter is rejected, the
\* task is failed.
C10_UpstreamFailureFailsTask ==
    [][\A c \in 1..Len(calls) :
         calls[c].state = "waiting" /\ calls'[c].state = "failed"
         => tasks'[calls[c].task].status = "failed"]_vars

Terminal(task) == task.status \in {"completed", "failed"}

\* C11: a completed or failed task has exactly one of result and error set;
\* a pending, assigned or processing task has neither.
C11_ResultXorErrorWhenTerminal ==
    \A t \in 1..Len(tasks) :
        IF Terminal(tasks[t])
        THEN (tasks[t].result # Undefined) # (tasks[t].error # Undefined)
        ELSE tasks[t].result = Undefined /\ tasks[t].error = Undefined

\* The status paths of a task
StatusPaths == {<<"pending", "assigned", "processing", "completed">>,
                <<"pending", "assigned", "processing", "failed">>}

IsPrefix(s, full) == Len(s) <= Len(full) /\ s = SubSeq(full, 1, Len(s))

\* C12: the statuses written to a task, from its creation on, are a prefix of
\* pending, assigned, processing, completed or of pending, assigned,
\* processing, failed: it starts pending, skips nothing, never moves back, and
\* nothing is written after completed or failed.
C12_StatusPath ==
    \A t \in 1..Len(tasks) :
        /\ tasks[t].trail # <<>>
        /\ tasks[t].status = tasks[t].trail[Len(tasks[t].trail)]
        /\ \E full \in StatusPaths : IsPrefix(tasks[t].trail, full)

\* A task has gone the whole path to completed.
C12_Witness ==
    \E t \in 1..Len(tasks) :
        tasks[t].trail = <<"pending", "assigned", "processing", "completed">>

\* Scenario E: one online worker of capacity 1 and the two enqueue calls made
ScenarioE ==
    /\ Len(workers) = 1 /\ workers[1].maxCapacity = 1
    /\ Len(tasks) = Len(ScenarioTwoTasks)

\* C13: in scenario E exactly one of the two tasks is assigned at once, the
\* other is pending while the first is in flight, and when the first has
\* completed the other is assigned with no further enqueue.
C13_SecondAssignedWhenFirstCompletes ==
    ScenarioE =>
        /\ tasks[1].status # "pending"
        /\ tasks[1].status = "processing" => tasks[2].status = "pending"
        /\ tasks[1].status = "completed" => tasks[2].status # "pending"

\* Scenario A: three online workers of capacities 2, 4, 8 at zero load in any
\* registration order and a first task of priority 0
ScenarioA ==
    /\ Len(workers) = 3
    /\ {workers[i].maxCapacity : i \in 1..Len(workers)} = {2, 4, 8}
    /\ Len(tasks) >= 1 /\ tasks[1].priority = 0

\* C14 as stated: in scenario A the task is assigned to the worker of
\* capacity 8.
C14_AssignedToLargestCapacity ==
    ScenarioA =>
        /\ HasWorker(workers, tasks[1].assignedWorker)
        /\ GetWorker(workers, tasks[1].assignedWorker).maxCapacity = 8

\* C14: in scenario A the task is assigned to the worker registered first:
\* the three ratios are all 0 and the sort keeps registration order.
C14_AssignedToFirstRegistered ==
    ScenarioA =>
        /\ tasks[1].status # "pending"
        /\ tasks[1].assignedWorker = workers[1].id

\* Scenario A has run with the capacity 8 worker registered last.
C14_Witness ==
    /\ ScenarioA
    /\ workers[3].maxCapacity = 8
    /\ tasks[1].assignedWorker = workers[1].id

RECURSIVE SumCapacity(_)
SumCapacity(ws) ==
    IF ws = <<>> THEN 0 ELSE ws[1].maxCapacity + SumCapacity(Tail(ws))

\* Scenario B: enqueue calls with priorities 1, 5, 1, 3, 1 against workers
\* with free capacity for all of them
ScenarioB ==
    /\ SumCapacity(workers) >= Len(ScenarioFiveTasks)
    /\ tasks # <<>>
    /\ IsPrefix(PrioritiesOf(tasks), ScenarioFiveTasks)

\* The tasks of scenario B in the order priority descending, then enqueue
\* order: ids 2, 4, 1, 3, 5
PriorityOrderB ==
    SortByPriority([i \in 1..Len(ScenarioFiveTasks) |->
                       [priority |-> ScenarioFiveTasks[i]]],
                   [i \in 1..Len(ScenarioFiveTasks) |-> i])

EnqueueOrderB == [i \in 1..Len(ScenarioFiveTasks) |-> i]

IsAssigned(t) == t <= Len(tasks) /\ tasks[t].status # "pending"

\* The tasks assigned so far are the first ones of `order`
AssignedInOrder(order) ==
    \A k \in 1..Len(order) :
        IsAssigned(order[k]) => \A j \in 1..(k - 1) : IsAssigned(order[j])

WithStatus(status) == {i \in 1..Len(workers) : workers[i].status = status}

\* C16: getWorkerStats counts the workers by status: total is the number of
\* registered workers, online, offline and busy are the numbers of workers of
\* that status, total = online + offline + busy, and all four are 0 for an
\* empty registry.
C16_StatsCountByStatus ==
    LET stats == GetWorkerStats(workers)
    IN  /\ stats.total = Len(workers)
        /\ stats.online = Cardinality(WithStatus("online"))
        /\ stats.offline = Cardinality(WithStatus("offline"))
        /\ stats.busy = Cardinality(WithStatus("busy"))
        /\ stats.total = stats.online + stats.offline + stats.busy
        /\ workers = <<>> =>
               stats = [total |-> 0, online |-> 0, offline |-> 0, busy |-> 0]

\* Statistics are taken of a registry holding a busy and an offline worker.
C16_Witness ==
    /\ GetWorkerStats(workers).busy >= 1
    /\ GetWorkerStats(workers).offline >= 1

\* validateApiKey(key) gives a record now
Validates(keys, key) == ValidateApiKey(keys, key) # Null

\* The key that was stored under id
KeyOfId(id) == CHOOSE key \in KeyValues : KeyId(key) = id

\* A call of the API key service returns in this step
Returns(op) == reply' # reply /\ reply'.op = op

\* What a validateApiKey call returns: the stored record exactly when a
\* record with this key is stored and active, else null
ValidateReplyRight(keys, rep) ==
    IF \E i \in 1..Len(keys) : keys[i].key = rep.arg /\ keys[i].isActive
    THEN /\ Cardinality(rep.records) = 1
         /\ \A r \in rep.records :
                /\ r.key = rep.arg
                /\ r.isActive
                /\ HasApiKey(keys, r.id)
                /\ GetApiKey(keys, r.id) = r
    ELSE rep.records = Null

\* C18: validateApiKey returns the record only for a key that is stored and
\* active and null for any other key; when revokeApiKey(id) has returned true
\* the key of that id does not validate, and a created key that does not
\* validate never validates again, whatever service call follows;
\* revokeApiKey of an id that is not stored returns false and changes no key.
C18_RevokedKeyNeverValidates ==
    [][/\ Returns("validateApiKey") =>
              /\ ValidateReplyRight(apiKeys, reply')
              /\ apiKeys' = apiKeys
       /\ Returns("revokeApiKey") =>
              IF HasApiKey(apiKeys, reply'.arg)
              THEN /\ reply'.ok
                   /\ ~Validates(apiKeys', KeyOfId(reply'.arg))
              ELSE /\ ~reply'.ok
                   /\ apiKeys' = apiKeys
       /\ \A key \in 1..nextKey :
              ~Validates(apiKeys, key) => ~Validates(apiKeys', key)
      ]_vars

\* A revoked key, still stored, has been presented and was refused.
C18_Witness ==
    /\ reply.op = "validateApiKey"
    /\ reply.records = Null
    /\ HasApiKeyByKey(apiKeys, reply.arg)
    /\ ~GetApiKeyByKey(apiKeys, reply.arg).isActive

\* A completion timer fires in this step
CompletionStep == \E tm \in simTimers : simTimers' = simTimers \ {tm}

\* C19: a completion that frees capacity starts a pass: when a task is
\* pending with no eligible worker and a completion makes a worker eligible,
\* a pending task is assigned by that step, with no further enqueue.
C19_CompletionStartsPass ==
    [][(/\ CompletionStep
        /\ \E t \in 1..Len(tasks) : tasks[t].status = "pending"
        /\ EligibleWorkers(workers) = {}
        /\ EligibleWorkers(workers') # {})
       => \E t \in 1..Len(tasks) : AssignedNow(t)
      ]_vars

\* The suspended pass ends in this step
PassEnds == pass.pc = "await" /\ pass'.pc = "idle"

\* A task that was pending when the ending pass started is still pending
StartPendingLeft ==
    \E j \in 1..Len(pass.pendingTasks) :
        tasks'[pass.pendingTasks[j]].status = "pending"

\* enqueue starts a pass in this step and finds no eligible worker
PassWithoutWorker ==
    /\ Len(tasks') = Len(tasks) + 1
    /\ ~processing
    /\ EligibleWorkers(workers) = {}

\* Such a pass changes no worker and no task: the tasks are the old ones and
\* the new pending one
NothingAssigned ==
    /\ workers' = workers
    /\ SubSeq(tasks', 1, Len(tasks)) = tasks
    /\ tasks'[Len(tasks')].status = "pending"
    /\ simTimers' = simTimers

\* C20 as stated: when a pass ends no task pending at its start is still
\* pending while some worker is online with currentLoad < maxCapacity; a pass
\* that finds no eligible worker changes no task and no worker.
C20_PassExhaustsRegistry ==
    [][/\ PassEnds => ~(StartPendingLeft /\ EligibleWorkers(workers') # {})
       /\ PassWithoutWorker => NothingAssigned
      ]_vars

\* C20: when a pass ends no task pending at its start is still pending unless
\* every worker of the pool the pass read at its start has been given a task
\* by this pass (the pool then holds only the worker used last); a pass that
\* finds no eligible worker changes no task and no worker.
C20_PassExhaustsPool ==
    [][/\ PassEnds =>
              \/ ~StartPendingLeft
              \/ \A k \in 1..Len(pass.availableWorkers) :
                     pass.availableWorkers[k].id = pass.worker
       /\ PassWithoutWorker => NothingAssigned
      ]_vars

\* A pass is suspended after the last worker of its pool took a task while
\* another task pending at its start is left, and that worker, still online,
\* has free capacity: the next step of the pass ends it.
C20_Witness ==
    /\ pass.pc = "await"
    /\ Len(pass.availableWorkers) = 1
    /\ pass.i < Len(pass.pendingTasks)
    /\ \E w \in EligibleWorkers(workers) : w.id = pass.worker

\* enqueue is called in this step while a pass is active
EnqueueDuringPass == processing /\ Len(tasks') = Len(tasks) + 1

\* C21: at most one pass is active: the processing flag is true exactly while
\* the one pass frame is suspended, and an enqueue that arrives while a pass
\* is suspended stores its task and starts no pass: the frame, the flag, the
\* workers, the timers and the older tasks stay as they are.
C21_OnePassAtATime ==
    [][/\ processing' <=> pass'.pc = "await"
       /\ EnqueueDuringPass =>
              /\ pass' = pass
              /\ processing'
              /\ workers' = workers
              /\ simTimers' = simTimers
              /\ SubSeq(tasks', 1, Len(tasks)) = tasks
              /\ tasks'[Len(tasks')].status = "pending"
      ]_vars

\* A pass is suspended and a task enqueued meanwhile is pending outside the
\* list of tasks the pass works on.
C21_Witness ==
    /\ processing
    /\ \E t \in 1..Len(tasks) :
           /\ tasks[t].status = "pending"
           /\ \A j \in 1..Len(pass.pendingTasks) : pass.pendingTasks[j] # t

\* C22: a task is assigned only to a worker that, when the assignment is
\* made, is in the registry, online and below its capacity.
C22_AssignedWorkerEligibleNow ==
    [][\A t \in 1..Len(tasks') :
           AssignedNow(t) =>
               \E w \in EligibleWorkers(workers) : w.id = tasks'[t].assignedWorker
      ]_vars

\* C23: a task has assignedWorker set exactly when its status is not pending.
C23_AssignedWorkerIffNotPending ==
    \A t \in 1..Len(tasks) :
        (tasks[t].assignedWorker # NoWorker) <=> (tasks[t].status # "pending")

\* One task has left pending with its worker set while another is pending.
C23_Witness ==
    /\ \E t \in 1..Len(tasks) :
           tasks[t].status = "completed" /\ tasks[t].assignedWorker # NoWorker
    /\ \E t \in 1..Len(tasks) :
           tasks[t].status = "pending" /\ tasks[t].assignedWorker = NoWorker

\* The registered waiter of call c is resolved in this step
WaiterResolved(c) == calls[c].state = "waiting" /\ calls'[c].state = "resolved"

\* C24: when the waiter of a task is resolved, the task is completed by then:
\* a registered waiter is never resolved while its task is pending or
\* processing.
C24_ResolvedOnlyWhenCompleted ==
    [][\A c \in 1..Len(calls) :
           WaiterResolved(c) => tasks'[calls[c].task].status = "completed"
      ]_vars

\* The heartbeat callback runs in this step: the clock of the registry moves
TickStep == LatestHeartbeat(workers') > LatestHeartbeat(workers)

Abs(x) == IF x < 0 THEN -x ELSE x

\* C25: utilization stays within 0..100 and memoryUsed within 0..memoryTotal;
\* a tick changes the utilization of a worker by at most 5 and its memoryUsed
\* by at most 1, and stamps lastHeartbeat of every registered worker with the
\* time of the tick.
C25_TelemetryBoundedAndFresh ==
    [][/\ \A i \in 1..Len(workers') :
              /\ workers'[i].utilization \in 0..MAX_UTILIZATION
              /\ workers'[i].memoryUsed \in 0..workers'[i].memoryTotal
       /\ TickStep =>
              /\ Len(workers') = Len(workers)
              /\ \A i \in 1..Len(workers) :
                     /\ Abs(workers'[i].utilization - workers[i].utilization) <= 5
                     /\ Abs(workers'[i].memoryUsed - workers[i].memoryUsed) <= 1
                     /\ workers'[i].lastHeartbeat = LatestHeartbeat(workers')
                     /\ workers'[i].lastHeartbeat > workers[i].lastHeartbeat
      ]_vars

\* After ticks one worker sits at the lower clamp of the utilization and one
\* at the upper clamp, memory at its total.
C25_Witness ==
    /\ LatestHeartbeat(workers) >= 1
    /\ \E i \in 1..Len(workers) : workers[i].utilization = 0
    /\ \E i \in 1..Len(workers) :
           /\ workers[i].utilization = MAX_UTILIZATION
           /\ workers[i].memoryUsed = workers[i].memoryTotal

\* How many times the status st was written to a task with this trail
RECURSIVE Occurrences(_, _)
Occurrences(trail, st) ==
    IF trail = <<>> THEN 0
    ELSE (IF Head(trail) = st THEN 1 ELSE 0) + Occurrences(Tail(trail), st)

InFlightOn(id) ==
    {t \in 1..Len(tasks) : /\ tasks[t].status = "processing"
                           /\ tasks[t].assignedWorker = id}

\* C27: the currentLoad of every worker of the registry is the number of
\* processing tasks whose assignedWorker it is.
C27_LoadCountsTasksInFlight ==
    \A i \in 1..Len(workers) :
        workers[i].currentLoad = Cardinality(InFlightOn(workers[i].id))

\* A worker has seen an increment, a decrement and another increment: one
\* of its tasks is completed, another is in flight.
C27_Witness ==
    \E i \in 1..Len(workers) :
        /\ workers[i].currentLoad = 1
        /\ Cardinality(InFlightOn(workers[i].id)) = 1
        /\ \E t \in 1..Len(tasks) : /\ tasks[t].status = "completed"
                                    /\ tasks[t].assignedWorker = workers[i].id

\* The workers that the iterations 1..n of the suspended pass gave tasks to
GivenInPass(ts, p, n) ==
    {ts[p.pendingTasks[k]].assignedWorker : k \in 1..n}

\* C28: in one pass a worker gets one task at most.  While a pass is
\* suspended after its iteration i, the i tasks it has assigned have i
\* different workers, none of which is left in the pool for the iterations to
\* come; every iteration takes one worker out of the pool, which starts as
\* the eligible workers of the registry, so the pass assigns no more tasks
\* than there were eligible workers when it started.  (Calls made while
\* the pass is suspended leave the pass as it is.)
C28_OneTaskPerWorkerPerPass ==
    [][pass'.pc = "await" =>
          /\ Cardinality(GivenInPass(tasks', pass', pass'.i)) = pass'.i
          /\ \A k \in 1..Len(pass'.availableWorkers) :
                 pass'.availableWorkers[k].id
                     \notin GivenInPass(tasks', pass', pass'.i - 1)
          /\ pass.pc = "idle" =>
                 /\ pass'.i = 1
                 /\ Len(pass'.availableWorkers) = Len(GetAvailableWorkers(workers))
          /\ (pass.pc = "await" /\ pass' # pass) =>
                 /\ pass'.i = pass.i + 1
                 /\ Len(pass'.availableWorkers) = Len(pass.availableWorkers) - 1
      ]_vars

\* A pass is suspended after its second iteration: two tasks, two workers.
C28_Witness ==
    /\ pass.pc = "await"
    /\ pass.i = 2
    /\ Cardinality(GivenInPass(tasks, pass, 2)) = 2

\* The completion timers that fire in this step
FiredTimers == simTimers \ simTimers'

\* C29: a heartbeat tick keeps the registry's workers, their id, currentLoad,
\* maxCapacity and memoryTotal, the tasks, the armed completion timers and
\* the pass as they are, and where it changes a status the new status is
\* online or offline; the completion timer of a task whose worker is offline
\* by then still sets the task to completed and takes one off the worker's
\* load.
C29_TickFrameAndOfflineCompletion ==
    [][/\ TickStep =>
              /\ Len(workers') = Len(workers)
              /\ \A i \in 1..Len(workers) :
                     /\ workers'[i].id = workers[i].id
                     /\ workers'[i].currentLoad = workers[i].currentLoad
                     /\ workers'[i].maxCapacity = workers[i].maxCapacity
                     /\ workers'[i].memoryTotal = workers[i].memoryTotal
                     /\ workers'[i].status # workers[i].status
                            => workers'[i].status \in {"online", "offline"}
              /\ UNCHANGED <<nextWorker, tasks, processing, pass, simTimers,
                             taskCallbacks, calls>>
       /\ \A tm \in FiredTimers :
              /\ tasks'[tm.task].status = "completed"
              /\ \A i \in 1..Len(workers) :
                     (workers[i].id = tm.worker /\ workers[i].status = "offline")
                         => /\ workers[i].currentLoad > 0
                            /\ workers'[i].id = tm.worker
                            /\ workers'[i].currentLoad = workers[i].currentLoad - 1
      ]_vars

\* A tick has turned a worker offline while a task is in flight on it, its
\* load and the completion timer still there.
C29_Witness ==
    \E i \in 1..Len(workers) :
        /\ workers[i].status = "offline"
        /\ workers[i].lastHeartbeat > 0
        /\ workers[i].currentLoad = 1
        /\ \E tm \in simTimers :
               /\ tm.worker = workers[i].id
               /\ tasks[tm.task].status = "processing"

\* C30: in no state between two steps is a task in status assigned, and the
\* four counts of getStats add up to the number of stored tasks.
C30_StatsSumToTaskCount ==
    /\ \A t \in 1..Len(tasks) : tasks[t].status # "assigned"
    /\ LET stats == GetStats(tasks)
       IN  stats.pending + stats.processing + stats.completed + stats.failed
               = Len(tasks)

\* getStats called while a pass is suspended after an assignment, one task
\* still pending.
C30_Witness ==
    /\ pass.pc = "await"
    /\ GetStats(tasks).processing >= 1
    /\ GetStats(tasks).pending >= 1

====
